---- MODULE Spec2Model ----
(***************************************************************************)
(* Transcript-to-analytics core of calendar-gemini-to-slides.py:           *)
(* turn parsing, word aggregation, per-participant WPM, cross-meeting      *)
(* summary filter and colour assignment.                                   *)
(*                                                                         *)
(* A transcript is a sequence of lines.  A line is a record                *)
(*   [kind, name, hms, text]                                               *)
(* kind  : which of the source's regular expressions the stripped line     *)
(*         matches ("spk" speaker prefix, "ts" leading H:MM:SS token,      *)
(*         "date" the 'Jul 3, 2025' header, "other" none, "blank").         *)
(* name  : group(1) of the speaker pattern, stripped.                      *)
(* hms   : the digits of the matched timestamp token, <<h, m, s>>.         *)
(* text  : the whitespace-separated tokens of the line (for a speaker      *)
(*         line: of the remainder after the colon, stripped).              *)
(* A WPM value is kept as the exact fraction num/den (words*60 over        *)
(* seconds).                                                               *)
(***************************************************************************)
EXTENDS Integers, Sequences, FiniteSets, TLC

VARIABLES
    \* ---- analyze_transcript_and_generate_images / per_participant_wpm
    pc,
    transcript_text,
    transcript_lines,
    line_no,
    current_speaker,
    current_utterance,
    speaker_turns,
    turn_no,
    word_counts,
    running_totals,
    cumulative_word_counts,
    total_words,
    wpm_dict,
    \* ---- distinct_color_grid / make_global_color_dict
    all_participants,
    colors,
    color_dict,
    \* ---- main
    events,
    evt_no,
    analysed,
    slides,
    all_wpm_by_participant,
    filtered_wpm_by_participant

\* locals of the per-meeting analysis (pc is shared by every process)
varsMeeting == <<transcript_text, transcript_lines, line_no, current_speaker,
                 current_utterance, speaker_turns, turn_no, word_counts,
                 running_totals, cumulative_word_counts, total_words, wpm_dict>>

varsPalette == <<all_participants, colors, color_dict>>

varsBatch == <<events, evt_no, analysed, slides, all_wpm_by_participant,
               filtered_wpm_by_participant>>

vars == <<pc, varsMeeting, varsPalette, varsBatch>>

(***************************************************************************)
(* Bounds                                                                  *)
(***************************************************************************)
MaxLines == 4

(***************************************************************************)
(* Generic helpers                                                         *)
(***************************************************************************)
None == "<None>"

EmptyDict == <<>>

SeqsUpTo(S, n) == UNION {[1..k -> S] : k \in 0..n}

RECURSIVE SumSeq(_)
SumSeq(s) == IF s = <<>> THEN 0 ELSE Head(s) + SumSeq(Tail(s))

RECURSIVE Flatten(_)
Flatten(ss) == IF ss = <<>> THEN <<>> ELSE Head(ss) \o Flatten(Tail(ss))

MinOf(s) == CHOOSE x \in {s[i] : i \in DOMAIN s} : \A j \in DOMAIN s : x <= s[j]

MaxOf(s) == CHOOSE x \in {s[i] : i \in DOMAIN s} : \A j \in DOMAIN s : x >= s[j]

\* dict[k] = v
DictSet(d, k, v) == IF k \in DOMAIN d THEN [d EXCEPT ![k] = v] ELSE d @@ (k :> v)

\* Counter: counter[k] += n  (a missing key counts as 0 and is created)
CounterAdd(c, k, n) == DictSet(c, k, (IF k \in DOMAIN c THEN c[k] ELSE 0) + n)

\* defaultdict(list): d[k].append(v)
ListAppend(d, k, v) == DictSet(d, k, Append(IF k \in DOMAIN d THEN d[k] ELSE <<>>, v))

(***************************************************************************)
(* Lines and tokens                                                        *)
(***************************************************************************)
PunctTokens == {"..."}

TimeTokens == {"00:00:00", "00:00:10", "00:00:11", "00:01:10"}

\* len(re.findall(r'\b\w+\b', token)): "friend." is one word, "..." none,
\* "00:00:10" three.
WordsInToken(tok) ==
    IF tok \in PunctTokens THEN 0
    ELSE IF tok \in TimeTokens THEN 3
    ELSE 1

RECURSIVE count_words(_)
count_words(text) ==
    IF text = <<>> THEN 0 ELSE WordsInToken(Head(text)) + count_words(Tail(text))

SpeakerLine(name, text) ==
    [kind |-> "spk", name |-> name, hms |-> <<>>, text |-> text, lead |-> ""]

TimestampLine(h, m, s, shown) ==
    [kind |-> "ts", name |-> "", hms |-> <<h, m, s>>, text |-> <<shown>>, lead |-> ""]

OtherLine(text) ==
    [kind |-> "other", name |-> "", hms |-> <<>>, text |-> text, lead |-> ""]

DateLine ==
    [kind |-> "date", name |-> "", hms |-> <<>>, text |-> <<"Jul", "3,", "2025">>,
     lead |-> ""]

BlankLine == [kind |-> "blank", name |-> "", hms |-> <<>>, text |-> <<>>, lead |-> ""]

\* l.strip() is empty
IsBlank(line) == line.kind = "blank"

\* re.match(r"^([A-Za-z .'-]+):(.*)$", line)
MatchesSpeaker(line) == line.kind = "spk"

\* A speaker line behind leading white space: "lead" is what line.strip() removes
\* in front of the name.
LedSpeakerLine(lead, name, text) ==
    [kind |-> "spk", name |-> name, hms |-> <<>>, text |-> text, lead |-> lead]

\* re.match(r"^([A-Za-z .'-]+):(.*)$", line) on a line that was not stripped:
\* the class of the name admits a space and no other white space, and
\* group(1).strip() takes the leading spaces off the name.
MatchesSpeakerRaw(line) == line.kind = "spk" /\ line.lead \in {"", " "}

\* re.compile(r"^(\d{1,2}:\d{2}:\d{2})").match(line)
MatchesTimestamp(line) == line.kind = "ts"

\* re.match(r'^[A-Za-z]{3} \d{1,2}, \d{4}', line)
MatchesDate(line) == line.kind = "date"

\* '00:00:00' in line
ContainsZeroMarker(line) == \E i \in DOMAIN line.text : line.text[i] = "00:00:00"

T0 == TimestampLine(0, 0, 0, "00:00:00")

T10 == TimestampLine(0, 0, 10, "00:00:10")

T11 == TimestampLine(0, 0, 11, "00:00:11")

T70 == TimestampLine(0, 1, 10, "00:01:10")

Hello == <<"Hello", "there", "friend.">>

Morning == <<"Hi", "Alice,", "good", "morning.">>

Thanks == <<"Great,", "thanks.">>

Nine == <<"one", "two", "three", "four", "five", "six", "seven", "eight", "nine.">>

\* The lines transcripts are built from.
LineSet ==
    { T0, T10, T11,
      SpeakerLine("Alice", Hello),
      SpeakerLine("Alice", Nine),
      SpeakerLine("Bob", Morning),
      SpeakerLine("Bob", <<>>),
      OtherLine(Thanks) }

\* The end-to-end example of the specification, section 8.
ExampleTranscript ==
    << T0, SpeakerLine("Alice", Hello),
       T10, SpeakerLine("Bob", Morning),
       T70, SpeakerLine("Alice", Thanks) >>

\* A document with the 2-line header, a preamble, a blank line and a turn
\* whose text holds no word.
HeaderTranscript ==
    << DateLine, OtherLine(<<"Weekly", "sync">>), OtherLine(<<"Attendees">>), T0,
       BlankLine, T10, SpeakerLine("Bob", <<"...">>), T11, SpeakerLine("Bob", Morning) >>

\* Alice's 18 words over one second are 1080 WPM, Bob's 8 words 480 WPM.
OutlierTranscript ==
    << T10, SpeakerLine("Alice", Nine), SpeakerLine("Bob", Morning),
       T11, SpeakerLine("Alice", Nine), SpeakerLine("Bob", Morning) >>

\* Alice's timestamps fall in document order: 70 s, then 10 s.
DescendingTranscript ==
    << T70, SpeakerLine("Alice", Hello), T10, SpeakerLine("Alice", Thanks) >>

Transcripts ==
    SeqsUpTo(LineSet, MaxLines)
        \cup {ExampleTranscript, HeaderTranscript, OutlierTranscript, DescendingTranscript}

(***************************************************************************)
(* parse_timestamp                                                         *)
(***************************************************************************)
\* s.strip().split(':') has three parts; h*3600 + m*60 + sec
parse_timestamp(hms) ==
    IF Len(hms) # 3 THEN -1 ELSE hms[1] * 3600 + hms[2] * 60 + hms[3]

(***************************************************************************)
(* analyze_transcript_and_generate_images: preamble                        *)
(***************************************************************************)
\* [l for l in transcript_text.split('\n') if l.strip()]
NonBlank(lines) == SelectSeq(lines, LAMBDA l : ~IsBlank(l))

\* lines[2:] when lines[0] is the date header, else lines
BodyLines(lines) ==
    IF lines # <<>> /\ MatchesDate(lines[1])
    THEN SubSeq(lines, 3, Len(lines))
    ELSE lines

\* next((i for i, line in enumerate(body) if '00:00:00' in line), None), 1-based; 0 is None
StartIndex(body) ==
    IF \E i \in DOMAIN body : ContainsZeroMarker(body[i])
    THEN CHOOSE i \in DOMAIN body :
            /\ ContainsZeroMarker(body[i])
            /\ \A j \in 1..(i - 1) : ~ContainsZeroMarker(body[j])
    ELSE 0

\* body_lines[start_index+1:] if start_index is not None else body_lines
TranscriptLines(body) ==
    IF StartIndex(body) # 0
    THEN SubSeq(body, StartIndex(body) + 1, Len(body))
    ELSE body

(***************************************************************************)
(* analyze_transcript_and_generate_images: speaker turn parsing            *)
(***************************************************************************)
\* ' '.join(current_utterance).strip()
Joined(utterance) == Flatten(utterance)

\* CloseTurn emitting the turn whatever its text.
CloseTurnKeepsEmpty(turns, speaker, utterance) ==
    IF speaker # None
    THEN Append(turns, [speaker |-> speaker, utterance |-> Joined(utterance)])
    ELSE turns

\* if current_speaker is not None: joined = ...; if joined: speaker_turns.append(...)
CloseTurn(turns, speaker, utterance) ==
    IF speaker # None /\ Joined(utterance) # <<>>
    THEN Append(turns, [speaker |-> speaker, utterance |-> Joined(utterance)])
    ELSE turns

ParserInit == [turns |-> <<>>, speaker |-> None, utterance |-> <<>>]

\* One iteration of "for line in transcript_lines" of the turn parser.
ParseStep(st, line) ==
    IF IsBlank(line) THEN st
    ELSE IF MatchesSpeaker(line)
    THEN [turns |-> CloseTurn(st.turns, st.speaker, st.utterance),
          speaker |-> line.name,
          utterance |-> <<line.text>>]
    ELSE IF st.speaker # None
    THEN [st EXCEPT !.utterance = Append(@, line.text)]
    ELSE st

\* FlushStep forgetting the turn still open at end of input.
FlushStepDropsOpenTurn(st) == st.turns

\* if current_speaker is not None and current_utterance: ... append
FlushStep(st) ==
    IF st.speaker # None /\ st.utterance # <<>>
    THEN CloseTurn(st.turns, st.speaker, st.utterance)
    ELSE st.turns

(***************************************************************************)
(* analyze_transcript_and_generate_images: word aggregation                *)
(***************************************************************************)
AggInit == [word_counts |-> EmptyDict, running_totals |-> EmptyDict,
            cumulative |-> EmptyDict, total_words |-> 0]

\* Snapshot appending nothing for a participant on the participant's first turn.
SnapshotSkipsNewcomer(cumulative, counts, totals) ==
    [p \in DOMAIN counts |->
        IF p \in DOMAIN cumulative THEN Append(cumulative[p], totals[p]) ELSE <<>>]

\* for p in word_counts: cumulative_word_counts[p].append(running_totals[p])
Snapshot(cumulative, counts, totals) ==
    [p \in DOMAIN counts |->
        Append(IF p \in DOMAIN cumulative THEN cumulative[p] ELSE <<>>, totals[p])]

\* AggStep taking the snapshot before the speaker's total is updated.
AggStepStaleSnapshot(st, turn) ==
    LET words == count_words(turn.utterance)
        wc == CounterAdd(st.word_counts, turn.speaker, words)
        rt == CounterAdd(st.running_totals, turn.speaker, words)
        old == [p \in DOMAIN wc |->
                    IF p \in DOMAIN st.running_totals THEN st.running_totals[p] ELSE 0]
    IN [word_counts |-> wc,
        running_totals |-> rt,
        cumulative |-> Snapshot(st.cumulative, wc, old),
        total_words |-> st.total_words + words]

\* AggStep keeping the words of the last turn as the meeting's total.
AggStepTotalOfLastTurn(st, turn) ==
    LET words == count_words(turn.utterance)
        wc == CounterAdd(st.word_counts, turn.speaker, words)
        rt == CounterAdd(st.running_totals, turn.speaker, words)
    IN [word_counts |-> wc,
        running_totals |-> rt,
        cumulative |-> Snapshot(st.cumulative, wc, rt),
        total_words |-> words]

\* One iteration of "for speaker, utterance in speaker_turns".
AggStep(st, turn) ==
    LET words == count_words(turn.utterance)
        wc == CounterAdd(st.word_counts, turn.speaker, words)
        rt == CounterAdd(st.running_totals, turn.speaker, words)
    IN [word_counts |-> wc,
        running_totals |-> rt,
        cumulative |-> Snapshot(st.cumulative, wc, rt),
        total_words |-> st.total_words + words]

(***************************************************************************)
(* per_participant_wpm                                                     *)
(***************************************************************************)
OutlierWpm == 1000

RateInit == [current_timestamp |-> <<>>, times |-> EmptyDict, words |-> EmptyDict]

\* One iteration of "for line in transcript_lines" of the rate estimator.
RateScanStep(st, line) ==
    IF IsBlank(line) THEN st
    ELSE IF MatchesTimestamp(line)
    THEN [st EXCEPT !.current_timestamp = line.hms]
    ELSE IF MatchesSpeaker(line) /\ st.current_timestamp # <<>>
    THEN [st EXCEPT
            !.times = ListAppend(@, line.name, parse_timestamp(st.current_timestamp)),
            !.words = ListAppend(@, line.name, count_words(line.text))]
    ELSE st

RECURSIVE RateScan(_, _)
RateScan(st, lines) ==
    IF lines = <<>> THEN st
    ELSE CHOOSE res \in {RateScan(next, Tail(lines)) :
                            next \in {RateScanStep(st, Head(lines))}} : TRUE

\* [t for t in participant_times[name] if t is not None]
TsList(times) == SelectSeq(times, LAMBDA t : t # -1)

\* len(ts_list) < 2 or min(ts_list) == max(ts_list): skip
HasDuration(ts_list) == Len(ts_list) >= 2 /\ MinOf(ts_list) # MaxOf(ts_list)

\* A WPM of None (and of 0.0, which the filter treats alike)
NoWpm == [num |-> 0, den |-> 0]

\* WpmValue counting turns instead of words.
WpmValueCountsTurns(ts_list, words) ==
    IF MaxOf(ts_list) - MinOf(ts_list) > 0
    THEN [num |-> Len(words) * 60, den |-> MaxOf(ts_list) - MinOf(ts_list)]
    ELSE NoWpm

\* WpmValue taking the duration from the first to the last timestamp in
\* document order.
WpmValueFirstLast(ts_list, words) ==
    IF ts_list[Len(ts_list)] - ts_list[1] > 0
    THEN [num |-> SumSeq(words) * 60, den |-> ts_list[Len(ts_list)] - ts_list[1]]
    ELSE NoWpm

\* total_words / duration_min if duration_min > 0 else None,
\* with duration_min = (last - first) / 60.0
WpmValue(ts_list, words) ==
    IF MaxOf(ts_list) - MinOf(ts_list) > 0
    THEN [num |-> SumSeq(words) * 60, den |-> MaxOf(ts_list) - MinOf(ts_list)]
    ELSE NoWpm

\* KeepWpm without the outlier bound.
KeepWpmAnyRate(wpm) == wpm.num # 0

\* KeepWpm letting a rate of 0 through.
KeepWpmZeroRate(wpm) == wpm.den # 0 /\ wpm.num < OutlierWpm * wpm.den

\* if wpm and wpm < 1000
KeepWpm(wpm) == wpm.num # 0 /\ wpm.num < OutlierWpm * wpm.den

\* WpmDict with the duration floored at one second instead of the skip.
WpmDictFlooredDuration(st) ==
    LET rate(name) ==
            LET ts == TsList(st.times[name])
                span == MaxOf(ts) - MinOf(ts)
            IN [num |-> SumSeq(st.words[name]) * 60,
                den |-> IF span > 0 THEN span ELSE 1]
        kept == {name \in DOMAIN st.times :
                    TsList(st.times[name]) # <<>> /\ KeepWpm(rate(name))}
    IN [name \in kept |-> rate(name)]

WpmDict(st) ==
    LET kept == {name \in DOMAIN st.times :
                    /\ HasDuration(TsList(st.times[name]))
                    /\ KeepWpm(WpmValue(TsList(st.times[name]), st.words[name]))}
    IN [name \in kept |-> WpmValue(TsList(st.times[name]), st.words[name])]

per_participant_wpm(lines) == WpmDict(RateScan(RateInit, lines))

(***************************************************************************)
(* Per-meeting pipeline, step by step                                      *)
(***************************************************************************)
MeetingIdle ==
    /\ transcript_text = <<>>
    /\ transcript_lines = <<>>
    /\ line_no = 0
    /\ current_speaker = None
    /\ current_utterance = <<>>
    /\ speaker_turns = <<>>
    /\ turn_no = 0
    /\ word_counts = EmptyDict
    /\ running_totals = EmptyDict
    /\ cumulative_word_counts = EmptyDict
    /\ total_words = 0
    /\ wpm_dict = EmptyDict

PaletteIdle ==
    /\ all_participants = <<>>
    /\ colors = <<>>
    /\ color_dict = EmptyDict

BatchIdle ==
    /\ events = <<>>
    /\ evt_no = 0
    /\ analysed = <<>>
    /\ slides = <<>>
    /\ all_wpm_by_participant = EmptyDict
    /\ filtered_wpm_by_participant = EmptyDict

InitMeeting ==
    /\ pc = "analyze"
    /\ PaletteIdle
    /\ BatchIdle
    /\ transcript_text \in Transcripts
    /\ transcript_lines = <<>>
    /\ line_no = 0
    /\ current_speaker = None
    /\ current_utterance = <<>>
    /\ speaker_turns = <<>>
    /\ turn_no = 0
    /\ word_counts = EmptyDict
    /\ running_totals = EmptyDict
    /\ cumulative_word_counts = EmptyDict
    /\ total_words = 0
    /\ wpm_dict = EmptyDict

\* lines 285-314: drop blank lines, the header and the preamble
StripPreamble ==
    /\ pc = "analyze"
    /\ transcript_lines' = TranscriptLines(BodyLines(NonBlank(transcript_text)))
    /\ line_no' = 1
    /\ pc' = "parse"
    /\ UNCHANGED <<transcript_text, current_speaker, current_utterance, speaker_turns,
                   turn_no, word_counts, running_totals, cumulative_word_counts,
                   total_words, wpm_dict>>
    /\ UNCHANGED <<varsPalette, varsBatch>>

\* lines 316-330: one line of the turn parser
ParseLine ==
    /\ pc = "parse"
    /\ line_no <= Len(transcript_lines)
    /\ LET st == ParseStep([turns |-> speaker_turns, speaker |-> current_speaker,
                            utterance |-> current_utterance],
                           transcript_lines[line_no])
       IN /\ speaker_turns' = st.turns
          /\ current_speaker' = st.speaker
          /\ current_utterance' = st.utterance
    /\ line_no' = line_no + 1
    /\ UNCHANGED <<pc, transcript_text, transcript_lines, turn_no, word_counts,
                   running_totals, cumulative_word_counts, total_words, wpm_dict>>
    /\ UNCHANGED <<varsPalette, varsBatch>>

\* lines 331-342: flush the open turn at end of input
FlushTurn ==
    /\ pc = "parse"
    /\ line_no > Len(transcript_lines)
    /\ speaker_turns' = FlushStep([turns |-> speaker_turns, speaker |-> current_speaker,
                                   utterance |-> current_utterance])
    /\ turn_no' = 1
    /\ pc' = "aggregate"
    /\ UNCHANGED <<transcript_text, transcript_lines, line_no, current_speaker,
                   current_utterance, word_counts, running_totals,
                   cumulative_word_counts, total_words, wpm_dict>>
    /\ UNCHANGED <<varsPalette, varsBatch>>

\* lines 343-349: one turn of the aggregator
AggregateTurn ==
    /\ pc = "aggregate"
    /\ turn_no <= Len(speaker_turns)
    /\ LET st == AggStep([word_counts |-> word_counts, running_totals |-> running_totals,
                          cumulative |-> cumulative_word_counts,
                          total_words |-> total_words],
                         speaker_turns[turn_no])
       IN /\ word_counts' = st.word_counts
          /\ running_totals' = st.running_totals
          /\ cumulative_word_counts' = st.cumulative
          /\ total_words' = st.total_words
    /\ turn_no' = turn_no + 1
    /\ UNCHANGED <<pc, transcript_text, transcript_lines, line_no, current_speaker,
                   current_utterance, speaker_turns, wpm_dict>>
    /\ UNCHANGED <<varsPalette, varsBatch>>

\* line 400 and line 711: analysis returns transcript_lines, the rate estimator scans them
RateEstimate ==
    /\ pc = "aggregate"
    /\ turn_no > Len(speaker_turns)
    /\ wpm_dict' = per_participant_wpm(transcript_lines)
    /\ pc' = "done"
    /\ UNCHANGED <<transcript_text, transcript_lines, line_no, current_speaker,
                   current_utterance, speaker_turns, turn_no, word_counts,
                   running_totals, cumulative_word_counts, total_words>>
    /\ UNCHANGED <<varsPalette, varsBatch>>

NextMeeting ==
    \/ StripPreamble
    \/ ParseLine
    \/ FlushTurn
    \/ AggregateTurn
    \/ RateEstimate

Spec == InitMeeting /\ [][NextMeeting]_vars

(***************************************************************************)
(* distinct_color_grid / make_global_color_dict                            *)
(*                                                                         *)
(* Lightness and saturation are kept in hundredths, a hue as the index i   *)
(* of i/k.  An RGB colour is the triple colorsys.hls_to_rgb returns, each  *)
(* component as an exact numerator over 10000*k.                           *)
(***************************************************************************)
MaxRoster == 22

ManyNames == 20

Saturation == 70

NamePool ==
    << "Alice", "Bob", "Carol", "Dave", "Eve", "Frank", "Grace", "Heidi", "Ivan",
       "Judy", "Ken", "Leo", "Mallory", "Niaj", "Olivia", "Peggy", "Quentin",
       "Rupert", "Sybil", "Trent", "Uma", "Victor", "Walter", "Xena", "Yves", "Zoe" >>

\* The n names of the pool from position 1 + offset on, wrapping around.
RosterFrom(offset, n) ==
    [i \in 1..n |-> NamePool[((offset + i - 1) % Len(NamePool)) + 1]]

RosterOffsets == {0, 1, 11}

Rosters == {RosterFrom(o, n) : o \in RosterOffsets, n \in 0..MaxRoster}

\* int(math.ceil(n ** 0.5))
CeilSqrt(n) == CHOOSE k \in 0..n : k * k >= n /\ (k = 0 \/ (k - 1) * (k - 1) < n)

\* LValues with the third band from 20 names on.
LValuesFromTwenty(n) == IF n >= ManyNames THEN <<45, 65, 80>> ELSE <<50, 70>>

\* [0.45, 0.65, 0.8] if n > 20 else [0.5, 0.7]
LValues(n) == IF n > ManyNames THEN <<45, 65, 80>> ELSE <<50, 70>>

\* colorsys._v(m1, m2, hue), hue = h3 / (3k) before the modulo, times k
HueValue(m1, m2, h3, k) ==
    LET h == h3 % (3 * k)
    IN IF 2 * h < k THEN m1 * k + (m2 - m1) * 2 * h
       ELSE IF 2 * h < 3 * k THEN m2 * k
       ELSE IF h < 2 * k THEN m1 * k + (m2 - m1) * (4 * k - 2 * h)
       ELSE m1 * k

\* colorsys.hls_to_rgb(i / float(k), l, s)
hls_to_rgb(i, k, l, s) ==
    IF s = 0 THEN <<100 * l * k, 100 * l * k, 100 * l * k>>
    ELSE LET m2 == IF l <= 50 THEN l * (100 + s) ELSE 100 * l + 100 * s - l * s
             m1 == 200 * l - m2
         IN << HueValue(m1, m2, 3 * i + k, k),
               HueValue(m1, m2, 3 * i, k),
               HueValue(m1, m2, 3 * i - k, k) >>

\* The two loops of distinct_color_grid, from lightness number li (1-based)
\* and hue number i on.
RECURSIVE GridLoop(_, _, _, _, _)
GridLoop(acc, li, i, n, k) ==
    IF li > Len(LValues(n)) THEN acc
    ELSE IF i >= k
    THEN (IF Len(acc) >= n THEN acc ELSE GridLoop(acc, li + 1, 0, n, k))
    ELSE CHOOSE res \in
            {IF Len(next) >= n THEN next ELSE GridLoop(next, li, i + 1, n, k) :
                next \in {Append(acc, hls_to_rgb(i, k, LValues(n)[li], Saturation))}} :
            TRUE

\* colors[:n]
Truncate(s, n) == SubSeq(s, 1, IF Len(s) < n THEN Len(s) ELSE n)

distinct_color_grid(n) == Truncate(GridLoop(<<>>, 1, 0, n, CeilSqrt(n)), n)

PoolIndex(name) == CHOOSE i \in DOMAIN NamePool : NamePool[i] = name

\* Zip handing the colours out in the alphabetical order of the names.
ZipSortedNames(participants, cols) ==
    LET names == {participants[i] : i \in DOMAIN participants}
        rank(name) == Cardinality({x \in names : PoolIndex(x) <= PoolIndex(name)})
    IN [name \in {x \in names : rank(x) <= Len(cols)} |-> cols[rank(name)]]

\* dict(zip(participants, colors)): pairs up to the shorter of the two,
\* a later pair overwrites an earlier one with the same name
Zip(participants, cols) ==
    LET m == IF Len(cols) < Len(participants) THEN Len(cols) ELSE Len(participants)
    IN [name \in {participants[i] : i \in 1..m} |->
            cols[CHOOSE i \in 1..m :
                    /\ participants[i] = name
                    /\ \A j \in 1..m : participants[j] = name => j <= i]]

make_global_color_dict(participants) ==
    CHOOSE res \in {Zip(participants, cols) :
                        cols \in {distinct_color_grid(Len(participants))}} : TRUE

\* color_dict.get(name, (0.5, 0.5, 0.5, 1))
DefaultGray == <<-1, -1, -1>>

ColorOf(dict, name) == IF name \in DOMAIN dict THEN dict[name] ELSE DefaultGray

InitPalette ==
    /\ pc = "grid"
    /\ MeetingIdle
    /\ BatchIdle
    /\ all_participants \in Rosters
    /\ colors = <<>>
    /\ color_dict = EmptyDict

\* lines 234-235
DistinctColorGrid ==
    /\ pc = "grid"
    /\ colors' = distinct_color_grid(Len(all_participants))
    /\ pc' = "zip"
    /\ UNCHANGED <<all_participants, color_dict, varsMeeting, varsBatch>>

\* line 236
ZipColors ==
    /\ pc = "zip"
    /\ color_dict' = Zip(all_participants, colors)
    /\ pc' = "colored"
    /\ UNCHANGED <<all_participants, colors, varsMeeting, varsBatch>>

NextPalette ==
    \/ DistinctColorGrid
    \/ ZipColors

SpecPalette == InitPalette /\ [][NextPalette]_vars

(***************************************************************************)
(* main: the roster pass, the colour map, the per-meeting loop and the     *)
(* cross-meeting summary.                                                  *)
(*                                                                         *)
(* An event is [file_id, transcript]: whether the attachment has a fileId, *)
(* and the lines get_transcript_from_gemini_drive_file returns for it      *)
(* (<<>> when it returns None or an empty text).                           *)
(***************************************************************************)
MaxMeetings == 6

MaxMixed == 3

MinSamples == 5

Event(lines) == [file_id |-> TRUE, transcript |-> lines]

\* Alice and Bob both get a WPM sample.
EvBoth ==
    Event(<< T0, T10, SpeakerLine("Alice", Hello), SpeakerLine("Bob", Morning),
             T70, SpeakerLine("Alice", Thanks), SpeakerLine("Bob", Morning) >>)

\* Only Alice gets a WPM sample.
EvAlice ==
    Event(<< T10, SpeakerLine("Alice", Hello), SpeakerLine("Carol", Thanks),
             T11, SpeakerLine("Alice", Hello) >>)

\* Timestamps enough for the pre-check, no participant with two of them.
EvNoWpm == Event(ExampleTranscript)

EvNoFileId == [file_id |-> FALSE, transcript |-> ExampleTranscript]

EvNoTranscript == Event(<<>>)

EvFewTimestamps == Event(<< SpeakerLine("Bob", Morning), T10, SpeakerLine("Dave", Hello) >>)

\* Timestamps enough for the pre-check, no speaker line: no turn is recognised.
EvNoTurns == Event(<< T10, OtherLine(Thanks), T11 >>)

\* Bob has two timestamps and no counted word, Alice 6 words over one second.
EvZeroWords ==
    Event(<< T10, SpeakerLine("Bob", <<"...">>), SpeakerLine("Alice", Hello),
             T11, SpeakerLine("Bob", <<"...">>), SpeakerLine("Alice", Hello) >>)

\* A meeting whose lines are indented: Dave's behind a tab, Alice's behind a space.
EvIndented ==
    Event(<< T10, LedSpeakerLine("\t", "Dave", Hello), LedSpeakerLine(" ", "Alice", Hello),
             T11, LedSpeakerLine("\t", "Dave", Thanks), LedSpeakerLine(" ", "Alice", Hello) >>)

\* The events of a batch are kept by their key in this table.
EventOf(key) ==
    CASE key = "both" -> EvBoth
      [] key = "alice" -> EvAlice
      [] key = "nowpm" -> EvNoWpm
      [] key = "nofileid" -> EvNoFileId
      [] key = "notranscript" -> EvNoTranscript
      [] key = "fewtimestamps" -> EvFewTimestamps
      [] key = "noturns" -> EvNoTurns
      [] key = "zerowords" -> EvZeroWords
      [] key = "indented" -> EvIndented

RatePool == {"both", "alice", "nowpm"}

EventPool ==
    RatePool \cup {"nofileid", "notranscript", "fewtimestamps", "noturns", "zerowords",
                  "indented"}

Batches == SeqsUpTo(EventPool, MaxMixed) \cup SeqsUpTo(RatePool, MaxMeetings)

\* transcript_text.split('\n') filtered to the non-blank lines, cut after the
\* first line holding '00:00:00' (lines 200-202; no header is removed here)
RosterLines(transcript) ==
    LET lines == NonBlank(transcript)
    IN IF StartIndex(lines) # 0
       THEN SubSeq(lines, StartIndex(lines) + 1, Len(lines))
       ELSE lines

\* CollectNames putting a new name in front of the roster.
RECURSIVE CollectNamesPrepends(_, _)
CollectNamesPrepends(order, lines) ==
    IF lines = <<>> THEN order
    ELSE IF /\ MatchesSpeakerRaw(Head(lines))
            /\ Head(lines).name \notin {order[i] : i \in DOMAIN order}
    THEN CHOOSE res \in {CollectNamesPrepends(next, Tail(lines)) :
                            next \in {<<Head(lines).name>> \o order}} : TRUE
    ELSE CollectNamesPrepends(order, Tail(lines))

\* lines 203-209: append every speaker name not yet in participant_set
RECURSIVE CollectNames(_, _)
CollectNames(order, lines) ==
    IF lines = <<>> THEN order
    ELSE IF /\ MatchesSpeakerRaw(Head(lines))
            /\ Head(lines).name \notin {order[i] : i \in DOMAIN order}
    THEN CHOOSE res \in {CollectNames(next, Tail(lines)) :
                            next \in {Append(order, Head(lines).name)}} : TRUE
    ELSE CollectNames(order, Tail(lines))

\* lines 191-199: an event without a file id or without a transcript is passed over
RECURSIVE CollectEvents(_, _)
CollectEvents(order, evts) ==
    IF evts = <<>> THEN order
    ELSE IF ~EventOf(Head(evts)).file_id \/ EventOf(Head(evts)).transcript = <<>>
    THEN CollectEvents(order, Tail(evts))
    ELSE CHOOSE res \in
            {CollectEvents(next, Tail(evts)) :
                next \in {CollectNames(order, lines) :
                            lines \in {RosterLines(EventOf(Head(evts)).transcript)}}} :
            TRUE

collect_all_participants(evts) == CollectEvents(<<>>, evts)

\* lines 693-694: the lines of the text whose stripped form starts with H:MM:SS
TimestampLines(transcript) == SelectSeq(transcript, MatchesTimestamp)

RECURSIVE ParseLines(_, _)
ParseLines(st, lines) ==
    IF lines = <<>> THEN st
    ELSE CHOOSE res \in {ParseLines(next, Tail(lines)) :
                            next \in {ParseStep(st, Head(lines))}} : TRUE

\* lines 312-334: the whole turn parser
ParseTurns(lines) == FlushStep(ParseLines(ParserInit, lines))

RECURSIVE AggregateTurns(_, _)
AggregateTurns(st, turns) ==
    IF turns = <<>> THEN st
    ELSE CHOOSE res \in {AggregateTurns(next, Tail(turns)) :
                            next \in {AggStep(st, Head(turns))}} : TRUE

\* lines 339-349: the whole aggregation
Aggregate(turns) == AggregateTurns(AggInit, turns)

\* AppendSamples replacing the samples of a participant by the new one.
AppendSamplesOverwrites(all_wpm, meeting_wpm) ==
    [name \in DOMAIN all_wpm \cup DOMAIN meeting_wpm |->
        IF name \in DOMAIN meeting_wpm THEN <<meeting_wpm[name]>> ELSE all_wpm[name]]

\* for name, wpm in meeting_wpm.items(): all_wpm_by_participant[name].append(wpm)
AppendSamples(all_wpm, meeting_wpm) ==
    [name \in DOMAIN all_wpm \cup DOMAIN meeting_wpm |->
        IF name \in DOMAIN meeting_wpm
        THEN Append(IF name \in DOMAIN all_wpm THEN all_wpm[name] ELSE <<>>,
                    meeting_wpm[name])
        ELSE all_wpm[name]]

\* FilterSamples keeping a participant from 5 samples on.
FilterSamplesFromThreshold(all_wpm) ==
    [name \in {n \in DOMAIN all_wpm : Len(all_wpm[n]) >= MinSamples} |-> all_wpm[name]]

\* {name: wpm_list for name, wpm_list in all_wpm.items() if len(wpm_list) > 5}
FilterSamples(all_wpm) ==
    [name \in {n \in DOMAIN all_wpm : Len(all_wpm[n]) > MinSamples} |-> all_wpm[name]]

InitBatch ==
    /\ pc = "collect"
    /\ MeetingIdle
    /\ PaletteIdle
    /\ events \in Batches
    /\ evt_no = 0
    /\ analysed = <<>>
    /\ slides = <<>>
    /\ all_wpm_by_participant = EmptyDict
    /\ filtered_wpm_by_participant = EmptyDict

\* lines 672-675: no events, main returns
NoEvents ==
    /\ pc = "collect"
    /\ events = <<>>
    /\ pc' = "returned"
    /\ UNCHANGED <<varsMeeting, varsPalette, varsBatch>>

\* line 676
CollectAllParticipants ==
    /\ pc = "collect"
    /\ events # <<>>
    /\ all_participants' = collect_all_participants(events)
    /\ pc' = "colors"
    /\ UNCHANGED <<colors, color_dict, varsMeeting, varsBatch>>

\* line 677
MakeGlobalColorDict ==
    /\ pc = "colors"
    /\ colors' = distinct_color_grid(Len(all_participants))
    /\ color_dict' = make_global_color_dict(all_participants)
    /\ evt_no' = 1
    /\ pc' = "loop"
    /\ UNCHANGED <<all_participants, varsMeeting, events, analysed, slides,
                   all_wpm_by_participant, filtered_wpm_by_participant>>

AtEvent == pc = "loop" /\ evt_no <= Len(events)

\* lines 683-686
SkipNoFileId ==
    /\ AtEvent
    /\ ~EventOf(events[evt_no]).file_id
    /\ evt_no' = evt_no + 1
    /\ UNCHANGED <<pc, varsMeeting, varsPalette, events, analysed, slides,
                   all_wpm_by_participant, filtered_wpm_by_participant>>

\* SkipNoTranscript leaving main instead of going on to the next event.
SkipNoTranscriptReturns ==
    /\ AtEvent
    /\ EventOf(events[evt_no]).file_id
    /\ EventOf(events[evt_no]).transcript = <<>>
    /\ pc' = "returned"
    /\ UNCHANGED <<varsMeeting, varsPalette, varsBatch>>

\* lines 687-690
SkipNoTranscript ==
    /\ AtEvent
    /\ EventOf(events[evt_no]).file_id
    /\ EventOf(events[evt_no]).transcript = <<>>
    /\ evt_no' = evt_no + 1
    /\ UNCHANGED <<pc, varsMeeting, varsPalette, events, analysed, slides,
                   all_wpm_by_participant, filtered_wpm_by_participant>>

\* lines 692-696
SkipFewTimestamps ==
    /\ AtEvent
    /\ EventOf(events[evt_no]).file_id
    /\ EventOf(events[evt_no]).transcript # <<>>
    /\ Len(TimestampLines(EventOf(events[evt_no]).transcript)) < 2
    /\ evt_no' = evt_no + 1
    /\ UNCHANGED <<pc, varsMeeting, varsPalette, events, analysed, slides,
                   all_wpm_by_participant, filtered_wpm_by_participant>>

\* lines 709-711: the charts of the meeting are drawn, then its WPM computed
AnalysisOf(evt) ==
    LET lines == TranscriptLines(BodyLines(NonBlank(evt.transcript)))
        turns == ParseTurns(lines)
    IN CHOOSE res \in {[transcript_lines |-> lines, speaker_turns |-> turns,
                        agg |-> Aggregate(turns),
                        meeting_wpm |-> per_participant_wpm(lines)]} : TRUE

\* The analysis of each event of the pool, computed once.
AnalysisByKey == [key \in EventPool |-> AnalysisOf(EventOf(key))]

\* Analyse with the colour map rebuilt from the participants of the meeting.
AnalyseLocalColors ==
    /\ AtEvent
    /\ EventOf(events[evt_no]).file_id
    /\ EventOf(events[evt_no]).transcript # <<>>
    /\ Len(TimestampLines(EventOf(events[evt_no]).transcript)) >= 2
    /\ \E res \in {AnalysisByKey[events[evt_no]]} :
          /\ transcript_text' = EventOf(events[evt_no]).transcript
          /\ transcript_lines' = res.transcript_lines
          /\ speaker_turns' = res.speaker_turns
          /\ word_counts' = res.agg.word_counts
          /\ running_totals' = res.agg.running_totals
          /\ cumulative_word_counts' = res.agg.cumulative
          /\ total_words' = res.agg.total_words
          /\ wpm_dict' = res.meeting_wpm
          /\ color_dict' = make_global_color_dict(CollectNames(<<>>, res.transcript_lines))
    /\ analysed' = Append(analysed, evt_no)
    /\ UNCHANGED <<line_no, current_speaker, current_utterance, turn_no,
                   all_participants, colors, events>>

Analyse ==
    /\ AtEvent
    /\ EventOf(events[evt_no]).file_id
    /\ EventOf(events[evt_no]).transcript # <<>>
    /\ Len(TimestampLines(EventOf(events[evt_no]).transcript)) >= 2
    /\ \E res \in {AnalysisByKey[events[evt_no]]} :
          /\ transcript_text' = EventOf(events[evt_no]).transcript
          /\ transcript_lines' = res.transcript_lines
          /\ speaker_turns' = res.speaker_turns
          /\ word_counts' = res.agg.word_counts
          /\ running_totals' = res.agg.running_totals
          /\ cumulative_word_counts' = res.agg.cumulative
          /\ total_words' = res.agg.total_words
          /\ wpm_dict' = res.meeting_wpm
    /\ analysed' = Append(analysed, evt_no)
    /\ UNCHANGED <<line_no, current_speaker, current_utterance, turn_no,
                   varsPalette, events>>

\* lines 712-714
SkipNoWpm ==
    /\ Analyse
    /\ wpm_dict' = EmptyDict
    /\ evt_no' = evt_no + 1
    /\ UNCHANGED <<pc, slides, all_wpm_by_participant, filtered_wpm_by_participant>>

\* lines 715-720
AnalyseMeeting ==
    /\ Analyse
    /\ wpm_dict' # EmptyDict
    /\ all_wpm_by_participant' = AppendSamples(all_wpm_by_participant, wpm_dict')
    /\ slides' = Append(slides, evt_no)
    /\ evt_no' = evt_no + 1
    /\ UNCHANGED <<pc, filtered_wpm_by_participant>>

\* lines 723-725
Summarise ==
    /\ pc = "loop"
    /\ evt_no > Len(events)
    /\ filtered_wpm_by_participant' = FilterSamples(all_wpm_by_participant)
    /\ pc' = "summary"
    /\ UNCHANGED <<varsMeeting, varsPalette, events, evt_no, analysed, slides,
                   all_wpm_by_participant>>

NextBatch ==
    \/ NoEvents
    \/ CollectAllParticipants
    \/ MakeGlobalColorDict
    \/ SkipNoFileId
    \/ SkipNoTranscript
    \/ SkipFewTimestamps
    \/ SkipNoWpm
    \/ AnalyseMeeting
    \/ Summarise

SpecBatch == InitBatch /\ [][NextBatch]_vars

\* main is one sequential loop: while a statement remains, one is executed.
SpecBatchLive == InitBatch /\ [][NextBatch]_vars /\ WF_vars(NextBatch)

(***************************************************************************)
(* Properties of the per-meeting pipeline                                  *)
(***************************************************************************)
Alice == "Alice"

Bob == "Bob"

\* The parser has read all of transcript_lines and flushed.
Parsed == pc \in {"aggregate", "done"}

\* The aggregator has consumed every turn.
Aggregated == pc = "done" \/ (pc = "aggregate" /\ turn_no > Len(speaker_turns))

\* The turns the aggregator has consumed so far.
Consumed == SubSeq(speaker_turns, 1, turn_no - 1)

\* Words of the turns of p among the given turns.
RECURSIVE WordsOf(_, _)
WordsOf(p, turns) ==
    IF turns = <<>> THEN 0
    ELSE (IF Head(turns).speaker = p THEN count_words(Head(turns).utterance) ELSE 0)
         + WordsOf(p, Tail(turns))

SpeakersOf(turns) == {turns[i].speaker : i \in DOMAIN turns}

\* a = b as fractions
SameWpm(a, b) == a.num * b.den = b.num * a.den

\* a = 2 * b as fractions
TwiceWpm(a, b) == a.num * b.den = 2 * b.num * a.den

\* The timestamp in effect at line i: that of the latest timestamp line
\* before it, -1 when there is none.
TimestampAt(lines, i) ==
    LET prior == {j \in 1..(i - 1) : MatchesTimestamp(lines[j])}
    IN IF prior = {} THEN -1
       ELSE LET j == CHOOSE x \in prior : \A y \in prior : y <= x
            IN lines[j].hms[1] * 3600 + lines[j].hms[2] * 60 + lines[j].hms[3]

\* The timestamp values carried by the timestamped speaker lines of p.
StampsOf(lines, p) ==
    {TimestampAt(lines, i) : i \in {j \in DOMAIN lines :
        MatchesSpeaker(lines[j]) /\ lines[j].name = p /\ TimestampAt(lines, j) # -1}}

\* The lines with every speaker line of p saying its remainder twice:
\* the word count of each of p's turns doubles, the timestamps stay.
DoubleWords(lines, p) ==
    [i \in DOMAIN lines |->
        IF MatchesSpeaker(lines[i]) /\ lines[i].name = p
        THEN [lines[i] EXCEPT !.text = @ \o @]
        ELSE lines[i]]

\* C2 (as claimed): once the aggregator has consumed the turns, every
\* participant's cumulative sequence has as many entries as the meeting has
\* turns.
C2_EqualLengths ==
    Aggregated =>
        \A p \in DOMAIN cumulative_word_counts :
            Len(cumulative_word_counts[p]) = Len(speaker_turns)

\* C3: after every prefix of the turn sequence, every participant with a
\* turn in the prefix has a cumulative sequence whose last element is the
\* participant's word count, the words of the participant's turns so far.
C3_LastIsTotal ==
    \A p \in SpeakersOf(Consumed) :
        /\ p \in DOMAIN cumulative_word_counts
        /\ p \in DOMAIN word_counts
        /\ cumulative_word_counts[p] # <<>>
        /\ cumulative_word_counts[p][Len(cumulative_word_counts[p])] = word_counts[p]
        /\ word_counts[p] = WordsOf(p, Consumed)

C3_Witness ==
    /\ pc = "aggregate"
    /\ turn_no = 3
    /\ turn_no <= Len(speaker_turns)
    /\ Cardinality(SpeakersOf(Consumed)) = 2
    /\ \A p \in SpeakersOf(Consumed) : word_counts[p] > 0

\* C4 (as claimed): the example transcript gives the turns Alice, Bob, Alice
\* with the text after each colon, and the word counts Alice=5, Bob=4.
C4_ExampleTurns ==
    (transcript_text = ExampleTranscript /\ pc = "done") =>
        /\ speaker_turns = << [speaker |-> Alice, utterance |-> Hello],
                              [speaker |-> Bob, utterance |-> Morning],
                              [speaker |-> Alice, utterance |-> Thanks] >>
        /\ DOMAIN word_counts = {Alice, Bob}
        /\ word_counts[Alice] = 5
        /\ word_counts[Bob] = 4

\* C5 (as claimed): the example transcript gives Alice a WPM sample of
\* 5 words over 70/60 minutes and Bob none.
C5_ExampleRate ==
    (transcript_text = ExampleTranscript /\ pc = "done") =>
        /\ Alice \in DOMAIN wpm_dict
        /\ SameWpm(wpm_dict[Alice], [num |-> 5 * 60, den |-> 70])
        /\ Bob \notin DOMAIN wpm_dict

\* No line of the body is taken as a continuation: a line after a speaker
\* line is a speaker line.
NoContinuation(lines) ==
    \A i, j \in DOMAIN lines :
        (i < j /\ MatchesSpeaker(lines[i])) => MatchesSpeaker(lines[j])

SpeakerLines(lines) == SelectSeq(lines, MatchesSpeaker)

C7_DoublingDoubles ==
    pc = "done" =>
        \A p \in DOMAIN wpm_dict :
            LET doubled == per_participant_wpm(DoubleWords(transcript_lines, p))
            IN p \in DOMAIN doubled /\ TwiceWpm(doubled[p], wpm_dict[p])

\* C7 (amended): doubling the words of each of a participant's turns doubles
\* the reported WPM when the doubled value is below 1000, and leaves the
\* participant without a sample when it is not.
C7_DoublingBelowOutlier ==
    pc = "done" =>
        \A p \in DOMAIN wpm_dict :
            LET doubled == per_participant_wpm(DoubleWords(transcript_lines, p))
            IN IF 2 * wpm_dict[p].num < OutlierWpm * wpm_dict[p].den
               THEN p \in DOMAIN doubled /\ TwiceWpm(doubled[p], wpm_dict[p])
               ELSE p \notin DOMAIN doubled

C7_Witness ==
    /\ pc = "done"
    /\ \E p \in DOMAIN wpm_dict :
        /\ 2 * wpm_dict[p].num < OutlierWpm * wpm_dict[p].den
        /\ p \in DOMAIN per_participant_wpm(DoubleWords(transcript_lines, p))
        /\ wpm_dict[p].num > 0

\* C8: a participant whose timestamped turns all carry one timestamp value
\* gets no WPM sample.
C8_OneStampNoSample ==
    pc = "done" =>
        \A p \in {Alice, Bob} :
            Cardinality(StampsOf(transcript_lines, p)) = 1 => p \notin DOMAIN wpm_dict

C8_Witness ==
    /\ pc = "done"
    /\ \E p \in {Alice, Bob} :
        /\ Cardinality(StampsOf(transcript_lines, p)) = 1
        /\ Len(SelectSeq(transcript_lines,
                LAMBDA l : MatchesSpeaker(l) /\ l.name = p /\ l.text # <<>>)) >= 2
        /\ \A i \in DOMAIN transcript_lines :
            (MatchesSpeaker(transcript_lines[i]) /\ transcript_lines[i].name = p)
                => TimestampAt(transcript_lines, i) # -1

(***************************************************************************)
(* Properties of the colour assignment (SpecPalette)                       *)
(***************************************************************************)
\* C1 (as claimed): for a roster of N >= 1 names the grid has exactly N
\* colours and every name of the roster has an entry in the colour map.
C1_EveryNameColored ==
    (pc = "colored" /\ Len(all_participants) >= 1) =>
        /\ Len(colors) = Len(all_participants)
        /\ \A i \in DOMAIN all_participants : all_participants[i] \in DOMAIN color_dict

\* C10: the colour of the name at position i is the same for every roster
\* of the same length, whatever its names; the same roster gives the same map.
C10_ColorByPositionOnly ==
    pc = "colored" =>
        \A other \in Rosters :
            Len(other) = Len(all_participants) =>
                /\ \A i \in DOMAIN other :
                        ColorOf(color_dict, all_participants[i])
                            = ColorOf(make_global_color_dict(other), other[i])
                /\ other = all_participants => make_global_color_dict(other) = color_dict

C10_Witness ==
    /\ pc = "colored"
    /\ Len(all_participants) >= 3
    /\ \E other \in Rosters :
        /\ Len(other) = Len(all_participants)
        /\ \A i \in DOMAIN other : other[i] # all_participants[i]
        /\ \E i \in DOMAIN other, j \in DOMAIN other : i < j /\ other[j] = all_participants[i]
    /\ \A i \in DOMAIN all_participants : all_participants[i] \in DOMAIN color_dict

(***************************************************************************)
(* Properties of the batch (SpecBatch)                                     *)
(***************************************************************************)
SpeakerNames == {"Alice", "Bob", "Carol", "Dave"}

\* The samples accumulated for a participant.
SampleCount(name) ==
    IF name \in DOMAIN all_wpm_by_participant
    THEN Len(all_wpm_by_participant[name])
    ELSE 0

\* C9: after the batch a participant is in the cross-meeting summary exactly
\* when the participant has more than 5 accumulated samples.
C9_SummaryOverFiveSamples ==
    pc = "summary" =>
        \A name \in SpeakerNames :
            name \in DOMAIN filtered_wpm_by_participant <=> SampleCount(name) > 5

C9_Witness ==
    /\ pc = "summary"
    /\ \E a, b \in SpeakerNames :
        /\ SampleCount(a) = 6
        /\ a \in DOMAIN filtered_wpm_by_participant
        /\ SampleCount(b) = 5
        /\ b \notin DOMAIN filtered_wpm_by_participant

\* The meetings of the batch that have a file id and a transcript.
WithTranscript ==
    {i \in DOMAIN events :
        EventOf(events[i]).file_id /\ EventOf(events[i]).transcript # <<>>}

InSeq(x, s) == \E i \in DOMAIN s : s[i] = x

\* C11 (as claimed): every meeting with a transcript has its word-count
\* analysis performed and its word-count charts delivered to the deck, also
\* when it has fewer than two timestamp lines or yields no valid WPM; only
\* its WPM samples are left out.
C11_WordCountsDelivered ==
    pc = "summary" =>
        \A i \in WithTranscript : InSeq(i, analysed) /\ InSeq(i, slides)

\* The meeting at position i has no file id, no transcript, too few
\* timestamp lines, no recognised turn or no valid WPM.
DegenerateAt(i) ==
    LET evt == EventOf(events[i])
    IN \/ ~evt.file_id
       \/ evt.transcript = <<>>
       \/ Len(SelectSeq(evt.transcript, LAMBDA l : l.kind = "ts")) < 2
       \/ AnalysisByKey[events[i]].speaker_turns = <<>>
       \/ AnalysisByKey[events[i]].meeting_wpm = EmptyDict

\* A step of the loop over the events goes on to the next position of the
\* same batch, and one on a degenerate meeting adds no sample and no slide.
LoopStepVisitsNext ==
    (pc = "loop" /\ pc' = "loop") =>
        /\ evt_no' = evt_no + 1
        /\ events' = events
        /\ DegenerateAt(evt_no) =>
                UNCHANGED <<slides, all_wpm_by_participant, filtered_wpm_by_participant>>

\* The loop is left only for the summary, after the last event.
LoopLeavesToSummary ==
    (pc = "loop" /\ pc' # "loop") => (pc' = "summary" /\ evt_no = Len(events) + 1)

\* C12: in every batch a degenerate meeting (no file id, no transcript, no
\* recognised turns, too few timestamps, no valid WPM) is skipped, the loop
\* goes on to every later position in order, and the cross-meeting summary
\* is eventually reached.
C12_DegenerateNeverAborts ==
    /\ [][LoopStepVisitsNext /\ LoopLeavesToSummary]_vars
    /\ (pc = "collect" /\ events # <<>>) ~> (pc = "summary")

C12_Witness ==
    /\ pc = "summary"
    /\ Len(events) = 3
    /\ DegenerateAt(1)
    /\ InSeq(2, slides)
    /\ DegenerateAt(3)
    /\ ~InSeq(1, slides) /\ ~InSeq(3, slides)
    /\ events[1] # events[3]

\* The names of the speaker-labeled lines of the meeting at position i
\* that the roster pass reads.
NamesAt(i) ==
    LET lines == RosterLines(EventOf(events[i]).transcript)
    IN {lines[j].name : j \in {k \in DOMAIN lines : MatchesSpeakerRaw(lines[k])}}

RosterComplete ==
    {all_participants[i] : i \in DOMAIN all_participants}
        = UNION {NamesAt(i) : i \in WithTranscript}

ColorMapComplete ==
    /\ DOMAIN color_dict \subseteq {all_participants[i] : i \in DOMAIN all_participants}
    /\ \A i \in DOMAIN all_participants :
            i <= Len(colors) =>
                /\ all_participants[i] \in DOMAIN color_dict
                /\ color_dict[all_participants[i]] = colors[i]

\* C13: no meeting is analysed before the roster and the colour map are
\* complete for all meetings of the batch, and from the first analysis to
\* the last chart neither the roster nor the colour map changes.
C13_TwoPassOrdering ==
    /\ [](pc \in {"collect", "colors"} => (analysed = <<>> /\ slides = <<>> /\ MeetingIdle))
    /\ [](pc \in {"loop", "summary"} => (RosterComplete /\ ColorMapComplete))
    /\ [][(pc \in {"loop", "summary"}) => UNCHANGED varsPalette]_vars

C13_Witness ==
    /\ pc = "summary"
    /\ Len(analysed) >= 2
    /\ slides # <<>>
    /\ Len(all_participants) >= 3
    /\ \E name \in DOMAIN color_dict : name \notin NamesAt(analysed[1])

(***************************************************************************)
(* Further properties of the per-meeting pipeline (Spec)                   *)
(***************************************************************************)
\* The words of the remainders of the timestamped speaker lines of p.
RECURSIVE StampedWords(_, _, _)
StampedWords(lines, p, i) ==
    IF i = 0 THEN 0
    ELSE (IF /\ lines[i].kind = "spk"
             /\ lines[i].name = p
             /\ TimestampAt(lines, i) # -1
          THEN count_words(lines[i].text) ELSE 0)
         + StampedWords(lines, p, i - 1)

\* Seconds between the earliest and the latest timestamp of p, 0 when p has none.
SpanOf(lines, p) ==
    LET stamps == StampsOf(lines, p)
    IN IF stamps = {} THEN 0
       ELSE (CHOOSE x \in stamps : \A y \in stamps : y <= x)
            - (CHOOSE x \in stamps : \A y \in stamps : x <= y)

\* C14: no reported WPM is at or above 1000; a participant whose words*60 is
\* at least 1000 times the seconds between the first and last timestamp gets
\* no sample, and a participant with a positive rate below 1000 keeps the
\* sample whatever the others' rates are.
C14_NoSampleAtOrAboveOutlier ==
    pc = "done" =>
        /\ \A p \in DOMAIN wpm_dict :
                wpm_dict[p].den > 0 /\ wpm_dict[p].num < 1000 * wpm_dict[p].den
        /\ \A p \in {Alice, Bob} :
                LET span == SpanOf(transcript_lines, p)
                    words == StampedWords(transcript_lines, p, Len(transcript_lines))
                IN span > 0 =>
                    IF words * 60 >= 1000 * span
                    THEN p \notin DOMAIN wpm_dict
                    ELSE words > 0 =>
                            /\ p \in DOMAIN wpm_dict
                            /\ SameWpm(wpm_dict[p], [num |-> words * 60, den |-> span])

C14_Witness ==
    /\ pc = "done"
    /\ \E p, q \in {Alice, Bob} :
        /\ SpanOf(transcript_lines, p) > 0
        /\ StampedWords(transcript_lines, p, Len(transcript_lines)) * 60
                >= 1000 * SpanOf(transcript_lines, p)
        /\ p \notin DOMAIN wpm_dict
        /\ q \in DOMAIN wpm_dict

\* The text of the turn opened by the speaker line at position i: its
\* remainder and the lines after it up to the next speaker line.
UtteranceFrom(lines, i) ==
    LET later == {j \in (i + 1)..Len(lines) : lines[j].kind = "spk"}
        last == IF later = {} THEN Len(lines)
                ELSE (CHOOSE j \in later : \A k \in later : j <= k) - 1
    IN Flatten([j \in 1..(last - i + 1) |-> lines[i + j - 1].text])

\* The turns of the parser's turn sequence, each with the timestamp in
\* effect at its speaker line (-1 without one).
TaggedTurns(lines) ==
    LET opened == [i \in DOMAIN lines |->
                      [kind |-> lines[i].kind,
                       speaker |-> lines[i].name,
                       stamp |-> TimestampAt(lines, i),
                       utterance |-> UtteranceFrom(lines, i)]]
    IN SelectSeq(opened, LAMBDA t : t.kind = "spk" /\ t.utterance # <<>>)

\* TaggedTurns is the turn sequence of the state.
TurnsAreTagged ==
    pc = "done" =>
        speaker_turns = [k \in DOMAIN TaggedTurns(transcript_lines) |->
                            [speaker |-> TaggedTurns(transcript_lines)[k].speaker,
                             utterance |-> TaggedTurns(transcript_lines)[k].utterance]]

\* C16 (as claimed): for every participant the timestamps and the word total
\* the rate estimator works with are those of the participant's
\* timestamp-tagged turns in the parser's turn sequence, the words of a turn
\* counted over its full utterance.
C16_RateUsesParserTurns ==
    pc = "done" =>
        LET rate == RateScan(RateInit, transcript_lines)
        IN \A p \in {Alice, Bob} :
            LET own == SelectSeq(TaggedTurns(transcript_lines),
                                 LAMBDA t : t.speaker = p /\ t.stamp # -1)
                times == IF p \in DOMAIN rate.times THEN rate.times[p] ELSE <<>>
                words == IF p \in DOMAIN rate.words THEN rate.words[p] ELSE <<>>
            IN /\ times = [k \in DOMAIN own |-> own[k].stamp]
               /\ SumSeq(words) = SumSeq([k \in DOMAIN own |-> count_words(own[k].utterance)])

\* The lines with every timestamp line taken out.
WithoutTimestamps(lines) == SelectSeq(lines, LAMBDA l : l.kind # "ts")

\* C17 (as claimed): a timestamp line starts or ends no turn and gives no
\* text to any utterance: the turns, the word counts and the cumulative
\* trajectories are those of the same lines without the timestamp lines.
C17_TimestampLinesAreNonContent ==
    pc = "done" =>
        LET turns == ParseTurns(WithoutTimestamps(transcript_lines))
        IN /\ speaker_turns = turns
           /\ word_counts = Aggregate(turns).word_counts
           /\ cumulative_word_counts = Aggregate(turns).cumulative

\* A continuation line: non-blank, neither a speaker line nor a timestamp line.
IsContinuation(line) == line.kind \notin {"blank", "spk", "ts"}

\* The remainder of the speaker line at position i followed by the
\* continuation lines after it up to position last, in document order.
OpeningAndContinuations(lines, i, last) ==
    lines[i].text
        \o Flatten([j \in 1..(last - i) |->
                        IF IsContinuation(lines[i + j]) THEN lines[i + j].text ELSE <<>>])

\* The position of the last speaker line among the first n lines, 0 without one.
LastSpeakerLine(lines, n) ==
    LET spk == {j \in 1..n : lines[j].kind = "spk"}
    IN IF spk = {} THEN 0 ELSE CHOOSE j \in spk : \A k \in spk : k <= j

\* The position before the next speaker line after position i.
TurnEnd(lines, i) ==
    LET later == {j \in (i + 1)..Len(lines) : lines[j].kind = "spk"}
    IN IF later = {} THEN Len(lines)
       ELSE (CHOOSE j \in later : \A k \in later : j <= k) - 1

\* C18 (as claimed): while no speaker is active the lines read leave the
\* parser in its initial state; with a speaker active the open utterance is
\* the opening remainder followed by the continuation lines read since; and
\* every emitted turn's utterance is its opening remainder followed by its
\* continuation lines up to, not including, the next speaker line.
C18_ContinuationHandling ==
    /\ pc = "parse" =>
            LET open == LastSpeakerLine(transcript_lines, line_no - 1)
            IN IF open = 0
               THEN /\ current_speaker = None
                    /\ current_utterance = <<>>
                    /\ speaker_turns = <<>>
               ELSE /\ current_speaker = transcript_lines[open].name
                    /\ Joined(current_utterance)
                            = OpeningAndContinuations(transcript_lines, open, line_no - 1)
    /\ Parsed =>
            LET opened == [i \in DOMAIN transcript_lines |->
                              [kind |-> transcript_lines[i].kind,
                               speaker |-> transcript_lines[i].name,
                               utterance |-> OpeningAndContinuations(transcript_lines, i,
                                                TurnEnd(transcript_lines, i))]]
                claimed == SelectSeq(opened, LAMBDA t : t.kind = "spk" /\ t.utterance # <<>>)
            IN speaker_turns = [k \in DOMAIN claimed |->
                                    [speaker |-> claimed[k].speaker,
                                     utterance |-> claimed[k].utterance]]

\* The positions of the speaker lines of p.
LinesOf(lines, p) == {i \in DOMAIN lines : lines[i].kind = "spk" /\ lines[i].name = p}

\* p has speaker lines and the text of each of p's turns is empty.
AllTurnsEmpty(lines, p) ==
    /\ LinesOf(lines, p) # {}
    /\ \A i \in LinesOf(lines, p) : UtteranceFrom(lines, i) = <<>>

\* C19: every turn in the turn sequence has a non-empty utterance; the
\* turns emitted are the speaker lines whose joined text is not empty, and a
\* speaker whose turns are all discarded has no word count and no
\* cumulative trajectory.
C19_TurnsHaveText ==
    /\ \A k \in DOMAIN speaker_turns : speaker_turns[k].utterance # <<>>
    /\ Parsed =>
            /\ Len(speaker_turns)
                    = Cardinality({i \in DOMAIN transcript_lines :
                                      /\ transcript_lines[i].kind = "spk"
                                      /\ UtteranceFrom(transcript_lines, i) # <<>>})
            /\ \A p \in {Alice, Bob} :
                    AllTurnsEmpty(transcript_lines, p) =>
                        /\ p \notin SpeakersOf(speaker_turns)
                        /\ p \notin DOMAIN word_counts
                        /\ p \notin DOMAIN cumulative_word_counts

C19_Witness ==
    /\ pc = "done"
    /\ \E p \in {Alice, Bob} :
            /\ AllTurnsEmpty(transcript_lines, p)
            /\ Cardinality(LinesOf(transcript_lines, p)) = 2
            /\ p \notin DOMAIN word_counts
    /\ speaker_turns # <<>>
    /\ DOMAIN cumulative_word_counts # {}

\* The body of the document: its non-blank lines after the 2-line header.
BodyOf(text) == BodyLines(NonBlank(text))

\* The position of the first line of the body holding 00:00:00, 0 without one.
Boundary(body) ==
    LET marked == {i \in DOMAIN body : \E k \in DOMAIN body[i].text : body[i].text[k] = "00:00:00"}
    IN IF marked = {} THEN 0 ELSE CHOOSE i \in marked : \A j \in marked : i <= j

\* C20 (as claimed): when a line holds the zero marker, the lines before the
\* first such line are dropped and the boundary line and every line after it
\* remain in the body the parser and the rate estimator scan, so a speaker
\* line between the boundary and the next timestamp line carries 0 s.
C20_BoundaryLineKept ==
    (pc # "analyze" /\ Boundary(BodyOf(transcript_text)) # 0) =>
        LET body == BodyOf(transcript_text)
            first == Boundary(body)
        IN /\ transcript_lines = SubSeq(body, first, Len(body))
           /\ pc = "done" =>
                \A i \in (first + 1)..Len(body) :
                    (/\ body[i].kind = "spk"
                     /\ \A j \in (first + 1)..(i - 1) : body[j].kind # "ts"
                     /\ body[first].kind = "ts")
                    => LET rate == RateScan(RateInit, transcript_lines)
                       IN /\ body[i].name \in DOMAIN rate.times
                          /\ InSeq(0, rate.times[body[i].name])

\* The seconds of the timestamp token of a timestamp line, read off its
\* digits: H hours, MM minutes, SS seconds.
SecondsOf(line) == line.hms[1] * 3600 + line.hms[2] * 60 + line.hms[3]

\* The timestamps of the timestamped speaker lines of p, in document order.
StampSeqOf(lines, p) ==
    LET own == SelectSeq([i \in DOMAIN lines |->
                            [at |-> TimestampAt(lines, i), line |-> lines[i]]],
                         LAMBDA x : x.line.kind = "spk" /\ x.line.name = p /\ x.at # -1)
    IN [k \in DOMAIN own |-> own[k].at]

\* C21: for a participant with two or more distinct timestamp values the
\* computed WPM is total_words / ((max - min) / 60), max and min over all of
\* the participant's timestamps and total_words over all of the
\* participant's timestamped turns, a timestamp H:MM:SS being
\* H*3600 + MM*60 + SS seconds; it is the value reported when it is
\* positive and below the outlier bound.
C21_WpmFormula ==
    pc = "done" =>
        \A p \in {Alice, Bob} :
            LET span == SpanOf(transcript_lines, p)
                words == StampedWords(transcript_lines, p, Len(transcript_lines))
                rate == RateScan(RateInit, transcript_lines)
            IN span > 0 =>
                /\ SameWpm(WpmValue(TsList(rate.times[p]), rate.words[p]),
                           [num |-> words * 60, den |-> span])
                /\ WpmValue(TsList(rate.times[p]), rate.words[p]).den > 0
                /\ p \in DOMAIN wpm_dict =>
                        SameWpm(wpm_dict[p], [num |-> words * 60, den |-> span])
                /\ (0 < words * 60 /\ words * 60 < OutlierWpm * span) => p \in DOMAIN wpm_dict

C21_Witness ==
    /\ pc = "done"
    /\ Alice \in DOMAIN wpm_dict
    /\ StampSeqOf(transcript_lines, Alice) = <<70, 10>>
    /\ SameWpm(wpm_dict[Alice], [num |-> 5, den |-> 1])
    /\ \E i \in DOMAIN transcript_lines :
            transcript_lines[i].kind = "ts" /\ SecondsOf(transcript_lines[i]) = 70

\* The number of the first turn of p among the given turns.
FirstTurnOf(p, turns) ==
    CHOOSE t \in DOMAIN turns : turns[t].speaker = p /\ \A u \in 1..(t - 1) : turns[u].speaker # p

\* The length of the cumulative sequence of p, 0 without one.
CumulativeLen(cumulative, p) == IF p \in DOMAIN cumulative THEN Len(cumulative[p]) ELSE 0

\* The turn the aggregator consumes appends one value for every participant
\* who has spoken up to it and nothing for anyone else.
SnapshotStep ==
    (pc = "aggregate" /\ turn_no' = turn_no + 1) =>
        \A p \in {Alice, Bob} :
            IF p \in SpeakersOf(SubSeq(speaker_turns, 1, turn_no))
            THEN /\ p \in DOMAIN cumulative_word_counts'
                 /\ Len(cumulative_word_counts'[p])
                        = CumulativeLen(cumulative_word_counts, p) + 1
                 /\ \A k \in 1..CumulativeLen(cumulative_word_counts, p) :
                        cumulative_word_counts'[p][k] = cumulative_word_counts[p][k]
            ELSE p \notin DOMAIN cumulative_word_counts'

\* C24: after each turn one value is appended to the cumulative sequence of
\* every participant who has spoken at or before the turn and nothing for
\* the others; a participant's sequence has one entry per turn from the
\* participant's first turn to the last turn consumed.
C24_SnapshotRule ==
    /\ [][SnapshotStep]_vars
    /\ [](/\ DOMAIN cumulative_word_counts = SpeakersOf(Consumed)
          /\ \A p \in SpeakersOf(Consumed) :
                Len(cumulative_word_counts[p])
                    = Len(Consumed) - FirstTurnOf(p, Consumed) + 1)

C24_Witness ==
    /\ pc = "done"
    /\ Len(speaker_turns) = 3
    /\ speaker_turns[1].speaker = Alice
    /\ speaker_turns[2].speaker = Bob
    /\ speaker_turns[3].speaker = Alice
    /\ Len(cumulative_word_counts[Alice]) = 3
    /\ Len(cumulative_word_counts[Bob]) = 2

\* The turn after which the k-th snapshot of p was taken.
TurnOfSnapshot(p, k) == FirstTurnOf(p, Consumed) + k - 1

\* The last value of each participant's cumulative sequence, summed.
RECURSIVE SumOfFinals(_, _)
SumOfFinals(cumulative, names) ==
    IF names = {} THEN 0
    ELSE LET p == CHOOSE x \in names : TRUE
         IN cumulative[p][Len(cumulative[p])] + SumOfFinals(cumulative, names \ {p})

\* C27: every cumulative sequence is non-decreasing; from one snapshot to
\* the next only the value of the participant who spoke the turn changes,
\* by the word count of the turn; and the final values of all participants
\* add up to total_words.
C27_StepFunctions ==
    /\ \A p \in DOMAIN cumulative_word_counts :
            LET seq == cumulative_word_counts[p]
            IN /\ seq # <<>>
               /\ seq[1] = count_words(Consumed[TurnOfSnapshot(p, 1)].utterance)
               /\ \A k \in 2..Len(seq) :
                    LET turn == Consumed[TurnOfSnapshot(p, k)]
                    IN /\ seq[k] >= seq[k - 1]
                       /\ seq[k] - seq[k - 1]
                            = IF turn.speaker = p THEN count_words(turn.utterance) ELSE 0
    /\ SumOfFinals(cumulative_word_counts, DOMAIN cumulative_word_counts) = total_words
    /\ total_words = SumSeq([t \in DOMAIN Consumed |-> count_words(Consumed[t].utterance)])

C27_Witness ==
    /\ pc = "done"
    /\ Len(speaker_turns) = 4
    /\ DOMAIN cumulative_word_counts = {Alice, Bob}
    /\ \E k \in 2..Len(cumulative_word_counts[Alice]) :
            cumulative_word_counts[Alice][k] = cumulative_word_counts[Alice][k - 1]
    /\ \E k \in 2..Len(cumulative_word_counts[Alice]) :
            cumulative_word_counts[Alice][k] > cumulative_word_counts[Alice][k - 1]
    /\ total_words > cumulative_word_counts[Alice][Len(cumulative_word_counts[Alice])]

(***************************************************************************)
(* Further properties of the batch (SpecBatch)                             *)
(***************************************************************************)
\* Where a name is first seen: the position of the first meeting with a
\* transcript that has a speaker-labeled line of the name among the lines
\* the roster pass reads, and the position of the first such line in it.
FirstMeetingOf(name) ==
    CHOOSE i \in WithTranscript :
        name \in NamesAt(i) /\ \A k \in WithTranscript : name \in NamesAt(k) => i <= k

FirstLineOf(name, i) ==
    LET lines == RosterLines(EventOf(events[i]).transcript)
        own == {j \in DOMAIN lines : MatchesSpeakerRaw(lines[j]) /\ lines[j].name = name}
    IN CHOOSE j \in own : \A k \in own : j <= k

SeenBefore(a, b) ==
    \/ FirstMeetingOf(a) < FirstMeetingOf(b)
    \/ /\ FirstMeetingOf(a) = FirstMeetingOf(b)
       /\ FirstLineOf(a, FirstMeetingOf(a)) < FirstLineOf(b, FirstMeetingOf(b))

\* C15: the roster collect_all_participants returns holds no name twice, holds the names of the speaker lines
\* of the batch, and name a precedes name b exactly when the first speaker
\* line of a comes before the first speaker line of b, meetings in batch
\* order and lines in document order.
C15_RosterFirstSeenOrder ==
    pc = "colors" =>
        /\ \A i, j \in DOMAIN all_participants :
                i # j => all_participants[i] # all_participants[j]
        /\ RosterComplete
        /\ \A i, j \in DOMAIN all_participants :
                i < j <=> SeenBefore(all_participants[i], all_participants[j])

C15_Witness ==
    /\ pc = "colors"
    /\ Len(all_participants) >= 3
    /\ \E i, j \in DOMAIN all_participants :
            i < j /\ PoolIndex(all_participants[i]) > PoolIndex(all_participants[j])
    /\ \E i, k \in WithTranscript : i < k /\ NamesAt(i) \cap NamesAt(k) # {}

(***************************************************************************)
(* Further properties of the colour assignment (SpecPalette)               *)
(***************************************************************************)
\* The number of hues for N names: the least k with k*k >= N.
HuesFor(n) == CHOOSE k \in 0..n : k * k >= n /\ \A j \in 0..(k - 1) : j * j < n

\* The lightness bands for N names, in hundredths.
BandsFor(n) == IF n <= 20 THEN <<50, 70>> ELSE <<45, 65, 80>>

\* C22: the colour at 0-based roster position i is the one of hue
\* (i mod k)/k, lightness band floor(i/k) and saturation 0.7, with
\* k = ceil(sqrt(N)) and the bands (0.5, 0.7) up to N = 20 and
\* (0.45, 0.65, 0.8) above; one name gets hue 0, lightness 0.5.
C22_PaletteLayout ==
    pc \in {"zip", "colored"} =>
        LET n == Len(all_participants)
            k == HuesFor(n)
        IN /\ \A i \in 0..(Len(colors) - 1) :
                /\ (i \div k) + 1 <= Len(BandsFor(n))
                /\ colors[i + 1] = hls_to_rgb(i % k, k, BandsFor(n)[(i \div k) + 1], 70)
           /\ n = 1 => colors = <<hls_to_rgb(0, 1, 50, 70)>>
           /\ pc = "colored" =>
                \A i \in 1..Len(colors) : color_dict[all_participants[i]] = colors[i]

C22_Witness ==
    /\ pc = "colored"
    /\ Len(all_participants) = 21
    /\ Len(colors) = 15
    /\ colors[11] = hls_to_rgb(0, 5, 80, 70)
    /\ colors[11] # colors[1]
    /\ colors[11] # colors[6]

\* C23 (as claimed): no two different names of the roster are drawn in the
\* same colour, the default colour included.
C23_DistinctColors ==
    pc = "colored" =>
        \A i, j \in DOMAIN all_participants :
            all_participants[i] # all_participants[j] =>
                ColorOf(color_dict, all_participants[i])
                    # ColorOf(color_dict, all_participants[j])

(***************************************************************************)
(* Further properties of the cross-meeting accumulator (SpecBatch)         *)
(***************************************************************************)
\* The samples of a participant, <<>> without any.
SamplesOf(all_wpm, name) == IF name \in DOMAIN all_wpm THEN all_wpm[name] ELSE <<>>

\* A step keeps every earlier sample and appends at most one per
\* participant, none unless it analyses a meeting that yields a valid WPM.
AccumulatorStep ==
    \A name \in SpeakerNames :
        LET before == SamplesOf(all_wpm_by_participant, name)
            after == SamplesOf(all_wpm_by_participant', name)
        IN /\ Len(after) \in {Len(before), Len(before) + 1}
           /\ \A k \in DOMAIN before : after[k] = before[k]
           /\ Len(after) = Len(before) + 1 =>
                /\ analysed' = Append(analysed, evt_no)
                /\ AnalysisByKey[events[evt_no]].meeting_wpm # EmptyDict
                /\ name \in DOMAIN AnalysisByKey[events[evt_no]].meeting_wpm
                /\ after[Len(after)] = AnalysisByKey[events[evt_no]].meeting_wpm[name]

\* C25: an analysed meeting appends at most one WPM sample per participant
\* and changes or removes no earlier sample, a meeting without a valid WPM
\* appends nothing, and a participant's sample count never exceeds the
\* number of meetings analysed so far.
C25_OneSamplePerMeeting ==
    /\ [][AccumulatorStep]_vars
    /\ [](/\ DOMAIN all_wpm_by_participant \subseteq SpeakerNames
          /\ \A name \in SpeakerNames : SampleCount(name) <= Len(analysed))

C25_Witness ==
    /\ pc = "summary"
    /\ Len(analysed) = 3
    /\ \E a, b \in SpeakerNames :
        /\ SampleCount(a) = 2
        /\ SampleCount(b) = 1
    /\ \E i \in DOMAIN analysed :
            AnalysisByKey[events[analysed[i]]].meeting_wpm = EmptyDict

\* The lines the rate estimator scanned for the meeting at position i.
ScannedAt(i) == AnalysisByKey[events[i]].transcript_lines

\* p has two or more distinct timestamps in the meeting at position i and
\* no counted word in its timestamped turns.
ZeroWordsAt(i, p) ==
    /\ SpanOf(ScannedAt(i), p) > 0
    /\ StampedWords(ScannedAt(i), p, Len(ScannedAt(i))) = 0

\* C26: every sample in the cross-meeting accumulator is above 0 and below
\* 1000, and a participant with two or more distinct timestamps and no
\* counted word gets no sample from the meeting.
C26_SamplesPositiveBelowOutlier ==
    /\ \A name \in DOMAIN all_wpm_by_participant :
            \A k \in DOMAIN all_wpm_by_participant[name] :
                LET wpm == all_wpm_by_participant[name][k]
                IN wpm.den > 0 /\ 0 < wpm.num /\ wpm.num < 1000 * wpm.den
    /\ \A i \in DOMAIN analysed :
            \A p \in SpeakerNames :
                ZeroWordsAt(analysed[i], p) =>
                    /\ p \notin DOMAIN AnalysisByKey[events[analysed[i]]].meeting_wpm
                    /\ SampleCount(p)
                            <= Cardinality({j \in DOMAIN analysed :
                                              ~ZeroWordsAt(analysed[j], p)})

C26_Witness ==
    /\ pc = "summary"
    /\ \E i \in DOMAIN slides : ZeroWordsAt(slides[i], Bob)
    /\ SampleCount(Bob) = 1
    /\ SampleCount(Alice) = 2


\* The speakers of the turns the turn parser produces for the meeting at position i.
TurnSpeakersAt(i) ==
    LET turns == AnalysisByKey[events[i]].speaker_turns
    IN {turns[t].speaker : t \in DOMAIN turns}

\* C28: every speaker of a turn of an analysed meeting of the batch is a
\* member of the roster collect_all_participants returned.
C28_RosterCoversAnalysis ==
    \A i \in DOMAIN analysed :
        TurnSpeakersAt(analysed[i])
            \subseteq {all_participants[k] : k \in DOMAIN all_participants}

\* A batch where the claim's case happens and the roster covers the turns.
RosterCoversSomeBatch ==
    /\ pc = "summary"
    /\ Len(analysed) >= 2
    /\ \A i \in DOMAIN analysed :
            /\ TurnSpeakersAt(analysed[i]) # {}
            /\ TurnSpeakersAt(analysed[i])
                    \subseteq {all_participants[k] : k \in DOMAIN all_participants}

\* The meeting with the tab-indented lines is analysed last: Dave speaks in
\* its turns and has a rate, and is neither in the roster nor in the colour map.
IndentedSpeakerUncovered ==
    /\ analysed # <<>>
    /\ events[analysed[Len(analysed)]] = "indented"
    /\ \E t \in DOMAIN speaker_turns : speaker_turns[t].speaker = "Dave"
    /\ "Dave" \in DOMAIN word_counts
    /\ "Alice" \in {all_participants[k] : k \in DOMAIN all_participants}
    /\ "Dave" \notin {all_participants[k] : k \in DOMAIN all_participants}
    /\ "Dave" \notin DOMAIN color_dict

====
